---- MODULE Spec2Model ----
(***************************************************************************)
(* Model of ApplicationActivity.py: newton_raphson_interactive, the        *)
(* Newton-Raphson loop for sqrt(target_val) on f(x) = x^2 - target_val,    *)
(* and its callers.                                                        *)
(*                                                                         *)
(* Numbers.  The program computes with Python floats.  The model computes  *)
(* with exact rationals num/den (IEEE-754 rounding is abstracted away:     *)
(* every operation returns the exact real result).  TLC's integers are 32  *)
(* bits wide, so numerators and denominators are multi-precision naturals: *)
(* little-endian sequences of limbs in radix Base, without leading zero    *)
(* limbs (zero is the empty sequence).  Rationals are not reduced to       *)
(* lowest terms; they are compared by cross-multiplication (REq, RLess).   *)
(*                                                                         *)
(* Output.  A printed line is modelled by its kind and iteration index;    *)
(* the numeric columns (formatted to 6 decimals) are not modelled.  A      *)
(* plot trace is modelled by its kind and iteration index.                 *)
(***************************************************************************)
EXTENDS Integers, Sequences, FiniteSets, TLC

(***************************************************************************)
(* Bounds of the model                                                     *)
(***************************************************************************)
\* radix of the multi-precision representation (results do not depend on it)
Base == 10000

\* largest max_iter drawn for a call with arbitrary arguments
MaxIter == 3

\* number of calls in a run of the repeated-call specification
MaxCalls == 3

(***************************************************************************)
(* Multi-precision naturals.  The operators do not recurse limb by limb:   *)
(* sums and products are split in halves.                                  *)
(***************************************************************************)
RECURSIVE BNat(_)
BNat(n) ==
    IF n = 0 THEN <<>> ELSE <<n % Base>> \o BNat(n \div Base)

Limb(a, k) == IF k <= Len(a) THEN a[k] ELSE 0

BTrim(a) ==
    LET nz == {k \in 1..Len(a) : a[k] # 0}
    IN  IF nz = {} THEN <<>>
        ELSE SubSeq(a, 1, CHOOSE k \in nz : \A j \in nz : j <= k)

\* limbs lo..hi of the limb-wise sums s (each at most 2*Base - 2), added
\* up for a carry of 0 and of 1 into limb lo: r0, r1 are the limbs, c0, c1
\* the carries out of limb hi
RECURSIVE AddRange(_, _, _)
AddRange(s, lo, hi) ==
    IF lo = hi
    THEN [r0 |-> <<s[lo] % Base>>,       c0 |-> s[lo] \div Base,
          r1 |-> <<(s[lo] + 1) % Base>>, c1 |-> (s[lo] + 1) \div Base]
    ELSE LET m == (lo + hi) \div 2
             L == AddRange(s, lo, m)
             H == AddRange(s, m + 1, hi)
         IN  [r0 |-> L.r0 \o (IF L.c0 = 0 THEN H.r0 ELSE H.r1),
              c0 |-> IF L.c0 = 0 THEN H.c0 ELSE H.c1,
              r1 |-> L.r1 \o (IF L.c1 = 0 THEN H.r0 ELSE H.r1),
              c1 |-> IF L.c1 = 0 THEN H.c0 ELSE H.c1]

BAdd(a, b) ==
    LET n == IF Len(a) >= Len(b) THEN Len(a) ELSE Len(b)
        s == [k \in 1..n |-> Limb(a, k) + Limb(b, k)]
        t == AddRange(s, 1, n)
    IN  IF n = 0 THEN <<>>
        ELSE IF t.c0 = 1 THEN t.r0 \o <<1>> ELSE t.r0

\* a - b for a >= b: a plus the radix complement of b, the carry dropped
BSub(a, b) ==
    LET s == [k \in 1..Len(a) |-> a[k] + (Base - 1 - Limb(b, k))]
    IN  IF a = <<>> THEN <<>> ELSE BTrim(AddRange(s, 1, Len(a)).r1)

\* -1, 0, 1 as a < b, a = b, a > b
BCmp(a, b) ==
    IF Len(a) < Len(b) THEN -1
    ELSE IF Len(a) > Len(b) THEN 1
    ELSE LET df == {k \in 1..Len(a) : a[k] # b[k]}
         IN  IF df = {} THEN 0
             ELSE LET m == CHOOSE k \in df : \A j \in df : j <= k
                  IN  IF a[m] < b[m] THEN -1 ELSE 1

\* a * Base^m
BShift(a, m) == IF a = <<>> THEN <<>> ELSE [k \in 1..m |-> 0] \o a

\* a * d for one limb d
BMulSmall(a, d) ==
    IF d = 0 \/ a = <<>> THEN <<>>
    ELSE LET lo == BTrim([k \in 1..Len(a) |-> (a[k] * d) % Base])
             hi == BTrim([k \in 1..Len(a) |-> (a[k] * d) \div Base])
         IN  BAdd(lo, BShift(hi, 1))

RECURSIVE BMul(_, _)
BMul(a, b) ==
    IF a = <<>> \/ b = <<>> THEN <<>>
    ELSE IF Len(b) = 1 THEN BMulSmall(a, b[1])
    ELSE LET m == Len(b) \div 2
         IN  BAdd(BMul(a, BTrim(SubSeq(b, 1, m))),
                  BShift(BMul(a, SubSeq(b, m + 1, Len(b))), m))

RECURSIVE BPow(_, _)
BPow(a, k) ==
    IF k = 0 THEN BNat(1)
    ELSE LET h == BPow(a, k \div 2)
         IN  IF k % 2 = 0 THEN BMul(h, h) ELSE BMul(a, BMul(h, h))

(***************************************************************************)
(* Signed multi-precision integers: [neg, mag], zero is never negative     *)
(***************************************************************************)
Z(neg, mag) == [neg |-> neg /\ mag # <<>>, mag |-> mag]

ZInt(n) == IF n < 0 THEN Z(TRUE, BNat(0 - n)) ELSE Z(FALSE, BNat(n))

ZNeg(a) == Z(~a.neg, a.mag)

ZAdd(a, b) ==
    IF a.neg = b.neg THEN Z(a.neg, BAdd(a.mag, b.mag))
    ELSE IF BCmp(a.mag, b.mag) >= 0 THEN Z(a.neg, BSub(a.mag, b.mag))
    ELSE Z(b.neg, BSub(b.mag, a.mag))

ZSub(a, b) == ZAdd(a, ZNeg(b))

ZMul(a, b) == Z(a.neg # b.neg, BMul(a.mag, b.mag))

\* a * m for a natural m
ZScale(a, m) == Z(a.neg, BMul(a.mag, m))

ZLess(a, b) == ZSub(a, b).neg

(***************************************************************************)
(* Exact rationals: [num (signed), den (natural, > 0)]                     *)
(***************************************************************************)
R(n, d) == [num |-> ZInt(n), den |-> BNat(d)]

\* n / 10^k
RDec(n, k) == [num |-> ZInt(n), den |-> BPow(BNat(10), k)]

RSub(a, b) ==
    [num |-> ZSub(ZScale(a.num, b.den), ZScale(b.num, a.den)),
     den |-> BMul(a.den, b.den)]

RMul(a, b) == [num |-> ZMul(a.num, b.num), den |-> BMul(a.den, b.den)]

\* a / b for b # 0
RDiv(a, b) ==
    [num |-> Z(a.num.neg # b.num.neg, BMul(a.num.mag, b.den)),
     den |-> BMul(a.den, b.num.mag)]

RAbs(a) == [num |-> Z(FALSE, a.num.mag), den |-> a.den]

RLess(a, b) == ZLess(ZScale(a.num, b.den), ZScale(b.num, a.den))

REq(a, b) == ZScale(a.num, b.den) = ZScale(b.num, a.den)

RLeq(a, b) == RLess(a, b) \/ REq(a, b)

(***************************************************************************)
(* Program constants                                                       *)
(***************************************************************************)
\* default max_iter of newton_raphson_interactive
DefaultMaxIter == 10

\* default tol of newton_raphson_interactive: 1e-6
DefaultTol == RDec(1, 6)

\* threshold of the derivative guard: 1e-12
GuardEps == RDec(1, 12)

\* the driver's problem list, (N, guess)
problems == <<
    <<R(3, 1), R(2, 1)>>,
    <<R(7, 1), R(3, 1)>>,
    <<R(20, 1), R(4, 1)>>,
    <<R(99, 1), R(10, 1)>> >>

(***************************************************************************)
(* The numerical steps of one loop pass                                    *)
(***************************************************************************)
f(x, target_val) == RSub(RMul(x, x), target_val)

\* df without the factor 2
dfHalved(x) == x

df(x) == RMul(R(2, 1), x)

\* the guard compared against 0: it never breaks
GuardHitNever(x) == RLess(RAbs(df(x)), R(0, 1))

\* the guard's comparison inverted
GuardHitInverted(x) == RLess(GuardEps, RAbs(df(x)))

\* abs(dfx) < 1e-12
GuardHit(x) == RLess(RAbs(df(x)), GuardEps)

\* the Newton step with the wrong sign
NewtonNextPlus(x, target_val) ==
    [num |-> ZAdd(ZScale(x.num, RDiv(f(x, target_val), df(x)).den),
                  ZScale(RDiv(f(x, target_val), df(x)).num, x.den)),
     den |-> BMul(x.den, RDiv(f(x, target_val), df(x)).den)]

\* x_next = x_curr - fx/dfx
NewtonNext(x, target_val) == RSub(x, RDiv(f(x, target_val), df(x)))

\* error = abs(x_next - x_curr)
ErrorOf(xn, xc) == RAbs(RSub(xn, xc))

\* the record indexed by the 0-based loop variable
RecordZeroBased(i, xc, fx, error) ==
    [Iter |-> i, x_curr |-> xc, fx |-> fx, Error |-> error]

\* the dictionary appended to iterations in pass i (0-based)
Record(i, xc, fx, error) ==
    [Iter |-> i + 1, x_curr |-> xc, fx |-> fx, Error |-> error]

\* a printed line, a plot trace
Line(kind, k) == [kind |-> kind, Iter |-> k]

\* value of a local that has not been assigned yet (no number: den = 0)
Unbound == [num |-> Z(FALSE, <<>>), den |-> <<>>]

(***************************************************************************)
(* Arguments of a call                                                     *)
(***************************************************************************)
Args(n, g, t, m) == [target_val |-> n, x0 |-> g, tol |-> t, max_iter |-> m]

\* the calls the driver makes: newton_raphson_interactive(N, guess)
DriverArgs ==
    {Args(problems[k][1], problems[k][2], DefaultTol, DefaultMaxIter) :
        k \in 1..Len(problems)}

TargetVals == {R(0, 1), R(1, 1), R(3, 1), R(99, 1), R(-1, 1)}

Guesses == {R(0, 1), R(1, 1), R(2, 1), R(-2, 1), R(1, 2)}

Tols == {DefaultTol, R(0, 1), R(3, 10)}

\* arguments near the guard's threshold: guesses of 1e-12 and 1e-13, a
\* target of 1e-26, for up to three passes
TinyInputs ==
    {Args(n, g, t, m) : n \in {R(0, 1), R(3, 1), RDec(1, 26)},
                        g \in {RDec(1, 12), RDec(1, 13)},
                        t \in Tols, m \in {1, 3}}

\* arguments of a single call: the driver's, arbitrary ones, tiny ones
Inputs ==
    DriverArgs \cup TinyInputs \cup
    {Args(n, g, t, m) : n \in TargetVals, g \in Guesses, t \in Tols,
                        m \in (-1)..MaxIter}

\* arguments of the calls of a run that calls repeatedly
CallInputs ==
    DriverArgs \cup
    {Args(R(3, 1), R(0, 1), DefaultTol, DefaultMaxIter),
     Args(R(3, 1), R(2, 1), DefaultTol, 2)}

(***************************************************************************)
(* State                                                                   *)
(***************************************************************************)
VARIABLES
    pc,          \* "idle": not in a call; "loop": at the head of the for
                 \* loop; "after_loop": at the final plot layout
    args,        \* target_val, x0, tol, max_iter of the current call
    i,           \* passes completed without a break (next value of range)
    x_curr,      \* local x_curr
    x_next,      \* local x_next
    iterations,  \* local list iterations
    fig,         \* traces added to the figure of the current call
    out,         \* lines printed to standard output, by all calls
    exit_by,     \* how the loop of the current call ended
    calls,       \* number of calls returned
    returned     \* (args, table) of every call returned

vars == <<pc, args, i, x_curr, x_next, iterations, fig, out, exit_by, calls,
          returned>>

Init ==
    /\ pc = "idle"
    /\ args = Args(R(0, 1), R(0, 1), DefaultTol, DefaultMaxIter)
    /\ i = 0
    /\ x_curr = Unbound
    /\ x_next = Unbound
    /\ iterations = <<>>
    /\ fig = <<>>
    /\ out = <<>>
    /\ exit_by = "none"
    /\ calls = 0
    /\ returned = {}

(***************************************************************************)
(* Operations                                                              *)
(***************************************************************************)
\* the entry with iterations kept from the call before (a list shared by
\* all calls instead of a fresh local)
CallSharedList(a) ==
    /\ pc = "idle"
    /\ pc' = "loop"
    /\ args' = a
    /\ i' = 0
    /\ x_curr' = a.x0
    /\ x_next' = Unbound
    /\ fig' = <<Line("curve", 0), Line("hline", 0)>>
    /\ out' = out \o <<Line("banner", 0), Line("header", 0)>>
    /\ exit_by' = "none"
    /\ UNCHANGED <<iterations, calls, returned>>

\* entry of newton_raphson_interactive up to the for statement
Call(a) ==
    /\ pc = "idle"
    /\ pc' = "loop"
    /\ args' = a
    /\ i' = 0
    /\ x_curr' = a.x0
    /\ x_next' = Unbound
    /\ iterations' = <<>>
    /\ fig' = <<Line("curve", 0), Line("hline", 0)>>
    /\ out' = out \o <<Line("banner", 0), Line("header", 0)>>
    /\ exit_by' = "none"
    /\ UNCHANGED <<calls, returned>>

\* range(max_iter) is used up
LoopExhausted ==
    /\ pc = "loop"
    /\ i >= args.max_iter
    /\ pc' = "after_loop"
    /\ exit_by' = "exhausted"
    /\ UNCHANGED <<args, i, x_curr, x_next, iterations, fig, out, calls,
                   returned>>

\* a pass that breaks at the derivative guard
PassGuard ==
    /\ pc = "loop"
    /\ i < args.max_iter
    /\ GuardHit(x_curr)
    /\ pc' = "after_loop"
    /\ exit_by' = "guard"
    /\ UNCHANGED <<args, i, x_curr, x_next, iterations, fig, out, calls,
                   returned>>

\* what a pass that gets past the guard does up to the test of error < tol
PassBody(xn, fx, error) ==
    /\ x_next' = xn
    /\ iterations' = Append(iterations, Record(i, x_curr, fx, error))
    /\ fig' = fig \o <<Line("tangent", i + 1), Line("start", i + 1)>>

\* the converging pass with x_curr = x_next moved before the test
PassConvergedAssigns ==
    /\ pc = "loop"
    /\ i < args.max_iter
    /\ ~GuardHit(x_curr)
    /\ LET fx    == f(x_curr, args.target_val)
           xn    == NewtonNext(x_curr, args.target_val)
           error == ErrorOf(xn, x_curr)
       IN  /\ RLess(error, args.tol)
           /\ PassBody(xn, fx, error)
           /\ out' = out \o <<Line("row", i + 1), Line("converged", 0)>>
           /\ x_curr' = xn
    /\ pc' = "after_loop"
    /\ exit_by' = "converged"
    /\ UNCHANGED <<args, i, calls, returned>>

\* the converging pass without its "Converged to" line
PassConvergedSilent ==
    /\ pc = "loop"
    /\ i < args.max_iter
    /\ ~GuardHit(x_curr)
    /\ LET fx    == f(x_curr, args.target_val)
           xn    == NewtonNext(x_curr, args.target_val)
           error == ErrorOf(xn, x_curr)
       IN  /\ RLess(error, args.tol)
           /\ PassBody(xn, fx, error)
           /\ out' = out \o <<Line("row", i + 1)>>
    /\ pc' = "after_loop"
    /\ exit_by' = "converged"
    /\ UNCHANGED <<args, i, x_curr, calls, returned>>

\* a pass that ends with error < tol: prints "Converged to" and breaks
PassConverged ==
    /\ pc = "loop"
    /\ i < args.max_iter
    /\ ~GuardHit(x_curr)
    /\ LET fx    == f(x_curr, args.target_val)
           xn    == NewtonNext(x_curr, args.target_val)
           error == ErrorOf(xn, x_curr)
       IN  /\ RLess(error, args.tol)
           /\ PassBody(xn, fx, error)
           /\ out' = out \o <<Line("row", i + 1), Line("converged", 0)>>
    /\ pc' = "after_loop"
    /\ exit_by' = "converged"
    /\ UNCHANGED <<args, i, x_curr, calls, returned>>

\* the pass that goes on whatever the error (the break is missing)
PassContinueAlways ==
    /\ pc = "loop"
    /\ i < args.max_iter
    /\ ~GuardHit(x_curr)
    /\ LET fx    == f(x_curr, args.target_val)
           xn    == NewtonNext(x_curr, args.target_val)
           error == ErrorOf(xn, x_curr)
       IN  /\ PassBody(xn, fx, error)
           /\ out' = out \o <<Line("row", i + 1)>>
           /\ x_curr' = xn
    /\ i' = i + 1
    /\ UNCHANGED <<pc, args, exit_by, calls, returned>>

\* a pass that ends with error >= tol: x_curr = x_next, next pass
PassContinue ==
    /\ pc = "loop"
    /\ i < args.max_iter
    /\ ~GuardHit(x_curr)
    /\ LET fx    == f(x_curr, args.target_val)
           xn    == NewtonNext(x_curr, args.target_val)
           error == ErrorOf(xn, x_curr)
       IN  /\ ~RLess(error, args.tol)
           /\ PassBody(xn, fx, error)
           /\ out' = out \o <<Line("row", i + 1)>>
           /\ x_curr' = xn
    /\ i' = i + 1
    /\ UNCHANGED <<pc, args, exit_by, calls, returned>>

\* the plot is laid out and shown, the table is returned
Return ==
    /\ pc = "after_loop"
    /\ pc' = "idle"
    /\ calls' = calls + 1
    /\ returned' = returned \cup {[args |-> args, table |-> iterations]}
    /\ UNCHANGED <<args, i, x_curr, x_next, iterations, fig, out, exit_by>>

Pass == PassGuard \/ PassConverged \/ PassContinue

\* one call, with any arguments
Next ==
    \/ \E a \in Inputs : calls = 0 /\ Call(a)
    \/ LoopExhausted
    \/ Pass
    \/ Return

Spec == Init /\ [][Next]_vars

\* up to MaxCalls calls, one after the other
NextCalls ==
    \/ \E a \in CallInputs : calls < MaxCalls /\ Call(a)
    \/ LoopExhausted
    \/ Pass
    \/ Return

SpecCalls == Init /\ [][NextCalls]_vars

(***************************************************************************)
(* Helpers of the properties                                               *)
(***************************************************************************)
Last(s) == s[Len(s)]

RZero == R(0, 1)

RPos(a) == RLess(RZero, a)

\* the loop of the current call has ended
LoopEnded == pc \in {"after_loop", "idle"} /\ exit_by # "none"

\* the lines a call has printed after k passes got past the guard
RowsPrinted(k) ==
    <<Line("banner", 0), Line("header", 0)>> \o [j \in 1..k |-> Line("row", j)]

A3 == Args(R(3, 1), R(2, 1), DefaultTol, DefaultMaxIter)

A99 == Args(R(99, 1), R(10, 1), DefaultTol, DefaultMaxIter)

(***************************************************************************)
(* C1: a pass that begins with |2*x_curr| < 1e-12 ends the loop in that    *)
(* pass, appends no record and computes no x_next (no division); no record *)
(* holds the result of a division by zero; a call with x0 = 0 and          *)
(* max_iter >= 1 returns a table with zero records.                        *)
(***************************************************************************)
C1_GuardStep ==
    (/\ pc = "loop"
     /\ i < args.max_iter
     /\ RLess(RAbs(RMul(R(2, 1), x_curr)), RDec(1, 12)))
    => (/\ pc' = "after_loop"
        /\ exit_by' = "guard"
        /\ iterations' = iterations
        /\ x_next' = x_next
        /\ out' = out)

C1_ZeroGuess ==
    /\ \A r \in returned :
          (REq(r.args.x0, RZero) /\ r.args.max_iter >= 1) => r.table = <<>>
    /\ \A k \in 1..Len(iterations) : iterations[k].Error.den # <<>>

\* C1: the derivative guard ends the loop without a record or a division,
\* and x0 = 0 gives an empty table
C1_DerivativeGuard == [][C1_GuardStep]_vars /\ []C1_ZeroGuess

C1_Witness ==
    /\ pc = "idle"
    /\ exit_by = "guard"
    /\ args.max_iter >= 1
    /\ REq(args.x0, RZero)
    /\ [args |-> args, table |-> <<>>] \in returned

(***************************************************************************)
(* C2: any two calls returned with identical arguments returned identical  *)
(* tables, whatever calls were made in between.                            *)
(***************************************************************************)
C2_Determinism ==
    \A r1, r2 \in returned : r1.args = r2.args => r1.table = r2.table

\* three calls returned, two of them with the same arguments and a
\* non-empty table, one with other arguments
C2_Witness ==
    /\ calls = 3
    /\ Cardinality(returned) = 2
    /\ pc = "idle"
    /\ \E r \in returned : r.args = args /\ Len(r.table) >= 2

(***************************************************************************)
(* C3: for target_val = 3, x0 = 2.0, default tol and max_iter, the first   *)
(* record of the table is Iter = 1, x_curr = 2, f(x) = 1, Error = 1/4      *)
(* (x_next = 7/4).                                                         *)
(***************************************************************************)
C3_FirstRecordOk(t) ==
    /\ Len(t) >= 1
    /\ t[1].Iter = 1
    /\ REq(t[1].x_curr, R(2, 1))
    /\ REq(t[1].fx, R(1, 1))
    /\ REq(t[1].Error, R(1, 4))

\* C3: the first record for (3, 2.0) is (1, 2, 1, 1/4)
C3_FirstRecord ==
    /\ \A r \in returned : r.args = A3 => C3_FirstRecordOk(r.table)
    /\ (args = A3 /\ Len(iterations) = 1) => REq(x_next, R(7, 4))
    /\ (args = A3 /\ Len(iterations) >= 1) => C3_FirstRecordOk(iterations)

C3_Witness ==
    \E r \in returned : r.args = A3 /\ Len(r.table) >= 1

(***************************************************************************)
(* C4: for target_val = 99, x0 = 10.0, tol = 1e-6, max_iter = 10 the loop  *)
(* ends by the convergence branch (last Error < tol) after fewer than 10   *)
(* records, and x_next is in [9.9498743, 9.9498744).                       *)
(***************************************************************************)
C4_Converges99 ==
    (args = A99 /\ LoopEnded) =>
        /\ exit_by = "converged"
        /\ Len(iterations) >= 1
        /\ Len(iterations) < 10
        /\ RLess(Last(iterations).Error, args.tol)
        /\ RLeq(RDec(99498743, 7), x_next)
        /\ RLess(x_next, RDec(99498744, 7))

C4_Witness ==
    /\ args = A99
    /\ pc = "idle"
    /\ exit_by = "converged"
    /\ [args |-> A99, table |-> iterations] \in returned

(***************************************************************************)
(* C6 as stated: every call prints its rows and then a final convergence   *)
(* message, whichever way the loop ends.                                   *)
(***************************************************************************)
C6_AlwaysFinalMessage ==
    LoopEnded =>
        out = RowsPrinted(Len(iterations)) \o <<Line("converged", 0)>>

(***************************************************************************)
(* C6 as amended: every call prints one row per appended record, in index  *)
(* order; the convergence message follows the rows exactly when the loop   *)
(* ends by the convergence branch, and nothing follows them when it ends   *)
(* by max_iter or by the derivative guard.                                 *)
(***************************************************************************)
C6_RowsThenMessageIfConverged ==
    /\ (pc = "loop") => out = RowsPrinted(Len(iterations))
    /\ (LoopEnded /\ exit_by = "converged") =>
          out = RowsPrinted(Len(iterations)) \o <<Line("converged", 0)>>
    /\ (LoopEnded /\ exit_by # "converged") =>
          out = RowsPrinted(Len(iterations))

C6_Witness ==
    /\ pc = "idle"
    /\ exit_by = "converged"
    /\ Len(iterations) >= 2
    /\ Last(out) = Line("converged", 0)

(***************************************************************************)
(* C7: after the convergence branch x_curr is still the last record's      *)
(* x_curr and differs from the reported x_next by exactly the last         *)
(* record's Error; after a pass that did not converge x_curr is that       *)
(* pass's x_next.                                                          *)
(***************************************************************************)
C7_FinalXCurr ==
    /\ exit_by = "converged" =>
          /\ Len(iterations) >= 1
          /\ x_curr = Last(iterations).x_curr
          /\ REq(RAbs(RSub(x_next, x_curr)), Last(iterations).Error)
          /\ RLess(Last(iterations).Error, args.tol)
    /\ (exit_by # "converged" /\ Len(iterations) >= 1) =>
          /\ x_curr = x_next
          /\ x_curr = NewtonNext(Last(iterations).x_curr, args.target_val)
          /\ ~RLess(Last(iterations).Error, args.tol)

\* converged with a last Error that is not zero
C7_Witness ==
    /\ pc = "idle"
    /\ exit_by = "converged"
    /\ Len(iterations) >= 2
    /\ RPos(Last(iterations).Error)
    /\ ~REq(x_curr, x_next)

(***************************************************************************)
(* C8: the result sequence holds k records with Iter = 1..k in order, k    *)
(* is at most max_iter (0 when max_iter <= 0), appended records never      *)
(* change during a call, and the loop ends after at most max_iter passes:  *)
(* every step taken in the loop leaves it or counts one more pass, and the *)
(* count never exceeds max_iter.                                           *)
(***************************************************************************)
C8_Indices ==
    /\ \A k \in 1..Len(iterations) : iterations[k].Iter = k
    /\ pc # "idle" => Len(iterations) <= args.max_iter \/ iterations = <<>>
    /\ pc # "idle" => i >= 0 /\ (i <= args.max_iter \/ i = 0)
    /\ pc = "loop" => Len(iterations) = i
    /\ \A r \in returned :
          /\ \A k \in 1..Len(r.table) : r.table[k].Iter = k
          /\ Len(r.table) <= r.args.max_iter \/ r.table = <<>>

C8_AppendOnly ==
    pc # "idle" =>
        /\ Len(iterations') >= Len(iterations)
        /\ Len(iterations') <= Len(iterations) + 1
        /\ SubSeq(iterations', 1, Len(iterations)) = iterations
        /\ (pc = "loop" /\ pc' = "loop") => i' = i + 1
        /\ (pc = "loop" /\ pc' # "loop") => pc' = "after_loop" /\ i' = i

\* C8: consecutive indices, at most max_iter records, append-only, at most
\* max_iter passes
C8_ResultSequence ==
    /\ []C8_Indices
    /\ [][C8_AppendOnly]_vars

C8_Witness ==
    /\ pc = "after_loop"
    /\ exit_by = "exhausted"
    /\ args.max_iter >= 3
    /\ Len(iterations) = args.max_iter

(***************************************************************************)
(* C9: in a table only the last record can have Error < tol; the first     *)
(* record's x_curr is x0 and every other record's x_curr is the previous   *)
(* record's x_curr - f(x)/(2*x_curr).                                      *)
(***************************************************************************)
C9_TableOk(a, t) ==
    /\ \A k \in 1..(Len(t) - 1) : ~RLess(t[k].Error, a.tol)
    /\ Len(t) >= 1 => t[1].x_curr = a.x0
    /\ \A k \in 2..Len(t) :
          REq(t[k].x_curr,
              RSub(t[k - 1].x_curr,
                   RDiv(t[k - 1].fx, RMul(R(2, 1), t[k - 1].x_curr))))

\* C9: only the last record has Error < tol, and the records chain by the
\* Newton step from x0
C9_OnlyLastConverges ==
    /\ \A r \in returned : C9_TableOk(r.args, r.table)
    /\ pc # "idle" => C9_TableOk(args, iterations)

C9_Witness ==
    \E r \in returned :
        /\ Len(r.table) >= 3
        /\ RLess(Last(r.table).Error, r.args.tol)

(***************************************************************************)
(* C10 as stated: for target_val > 0 and x0 > 0 every record with          *)
(* Iter >= 2 has f(x) >= 0, x_curr does not increase from the second       *)
(* record on, and the derivative guard only ends the loop in the first     *)
(* pass.                                                                   *)
(***************************************************************************)
C10_AboveRoot ==
    /\ \A k \in 2..Len(iterations) : ~iterations[k].fx.num.neg
    /\ \A k \in 3..Len(iterations) :
          RLeq(iterations[k].x_curr, iterations[k - 1].x_curr)

\* C10 as stated: iterates stay at or above the root and the guard only
\* acts in the first pass
C10_GuardOnlyFirstPass ==
    (RPos(args.target_val) /\ RPos(args.x0) /\ pc # "idle") =>
        /\ C10_AboveRoot
        /\ exit_by = "guard" => iterations = <<>>

(***************************************************************************)
(* C10 as amended: for target_val > 0 and x0 > 0 every record with         *)
(* Iter >= 2 has f(x) >= 0, x_curr does not increase from the second       *)
(* record on, and the derivative guard ends the loop after the first pass  *)
(* only when 4*target_val < 1e-24 (sqrt(target_val) < 5e-13).              *)
(***************************************************************************)
\* C10 as amended: iterates stay at or above the root; the guard acts
\* after the first pass only when 4*target_val < 1e-24
C10_GuardLaterOnlyTinyTarget ==
    (RPos(args.target_val) /\ RPos(args.x0) /\ pc # "idle") =>
        /\ C10_AboveRoot
        /\ (exit_by = "guard" /\ iterations # <<>>) =>
              RLess(RMul(R(4, 1), args.target_val), RDec(1, 24))

C10_Witness ==
    /\ RPos(args.target_val)
    /\ RPos(args.x0)
    /\ pc = "after_loop"
    /\ exit_by = "guard"
    /\ Len(iterations) >= 2

====
